---- MODULE Spec2Model ----
(***************************************************************************)
(* Checkout transaction of the e-commerce backend (app/main.py).           *)
(*                                                                         *)
(* The committed store is the relational database as any request can read  *)
(* it: the rows of products, carts, cart_items and orders (with their      *)
(* order_items).  Every request handler runs in its own AsyncSession; what *)
(* a session has written and not yet committed is kept per worker          *)
(* (new_order, pending_products, pending_delete) and reaches the committed *)
(* store only in the step that models "await db.commit()".  A row written  *)
(* by an uncommitted transaction is locked: another statement that writes  *)
(* the same row waits (its action is not enabled) until the lock holder    *)
(* commits or rolls back, and then sees the committed row.                 *)
(*                                                                         *)
(* Prices are Float columns; they are modelled as integers (the total is   *)
(* accumulated in cart order exactly as the order items are appended).     *)
(***************************************************************************)
EXTENDS Integers, Sequences, FiniteSets, TLC

\* ---------------------------------------------------------------- bounds
MaxStock == 2       \* largest stock_quantity an admin enters
MaxQty == 1         \* largest quantity of one add_to_cart request
MaxLines == 2       \* lines of a cart when the exploration starts
MaxCheckouts == 2   \* checkout requests explored in one behaviour
MaxChanges == 1     \* cart and catalog requests explored in one behaviour

\* ------------------------------------------------------------ input sets
Users == {"u1", "u2"}
Workers == {1, 2}
ProductIds == {1, 2}
Prices == {3, 5}
Quantities == 1..MaxQty
StockQuantities == 0..MaxStock
None == [none |-> TRUE]

VARIABLES
    products,          \* committed products rows: ProductIds -> row or None
    carts,             \* users that have a carts row
    cart_items,        \* committed cart_items rows
    orders,            \* committed orders rows, each with its order_items
    next_item_id,      \* next primary key of cart_items
    next_order_id,     \* next primary key of orders
    pc,                \* position of each worker in its handler
    user,              \* the user the worker's request is authenticated as
    cart_snapshot,     \* cart.items as loaded by the checkout (line 179)
    i,                 \* index of the cart line being processed
    product,           \* the Product object fetched for the current line
    total_price,       \* the local running total
    new_order,         \* the Order object of the session, with its items
    pending_products,  \* uncommitted products updates of the session
    pending_delete,    \* ids of cart_items deleted by the session, uncommitted
    exc,               \* the exception travelling to the except clause
    response,          \* what the handler returned or raised to the client
    item,              \* add_to_cart: the request body
    existing_item,     \* add_to_cart: the row found at line 122, or None
    handoff,           \* what became of send_order_email.delay ("none" so far)
    checkouts,         \* number of checkout requests received so far
    changes            \* number of cart and catalog requests received so far

vars == <<products, carts, cart_items, orders, next_item_id, next_order_id,
          pc, user, cart_snapshot, i, product, total_price, new_order,
          pending_products, pending_delete, exc, response, item,
          existing_item, handoff, checkouts, changes>>

store == <<products, carts, cart_items, orders, next_item_id, next_order_id>>
checkout_locals == <<cart_snapshot, i, product, total_price, new_order,
                     pending_products, pending_delete, exc>>
add_locals == <<item, existing_item>>

\* ------------------------------------------------------------- helpers
HTTPException(status_code, detail) ==
    [status_code |-> status_code, detail |-> detail]

EmptyCart == HTTPException(400, "EmptyCart")
ProductNotFound == HTTPException(404, "ProductNotFound")
OutOfStock == HTTPException(400, "OutOfStock")
StockChanged == HTTPException(409, "StockChanged")
\* Exceptions that are no HTTPException reach the client as a 500.
StoreUnavailable == HTTPException(500, "StoreUnavailable")
RefreshFailed == HTTPException(500, "RefreshFailed")

\* A checkout request is received (MaxCheckouts of them are explored).
AcceptCheckout ==
    /\ checkouts < MaxCheckouts
    /\ checkouts' = checkouts + 1
    /\ UNCHANGED changes

\* A cart or catalog request is received (MaxChanges of them are explored).
AcceptChange ==
    /\ changes < MaxChanges
    /\ changes' = changes + 1
    /\ UNCHANGED checkouts

budget == <<checkouts, changes>>

\* A request goes to the worker of least index that is not serving one; it
\* starts with a new session and new locals.
Free(w) ==
    /\ pc[w] \in {"idle", "done"}
    /\ \A o \in Workers : o < w => pc[o] \notin {"idle", "done"}

NoPending == [p \in ProductIds |-> None]

RECURSIVE SortById(_)
SortById(rows) ==
    IF rows = {} THEN <<>>
    ELSE LET first == CHOOSE r \in rows : \A s \in rows : r.id <= s.id
         IN  <<first>> \o SortById(rows \ {first})

\* Cart.items of a user, in primary-key (insertion) order.
CartItemsOf(u) == SortById({r \in cart_items : r.user = u})

\* The row of product p as the session of worker w reads it: its own
\* uncommitted update if it has one, the committed row otherwise.
ProductRow(w, p) ==
    IF pending_products[w][p] # None THEN pending_products[w][p]
    ELSE products[p]

\* Row p of products is write-locked by a transaction other than w's.
ProductLocked(w, p) ==
    \E o \in Workers \ {w} : pending_products[o][p] # None

\* Row id of cart_items is write-locked by a transaction other than w's.
CartItemLocked(w, id) ==
    \E o \in Workers \ {w} : id \in pending_delete[o]

RECURSIVE SumItems(_)
SumItems(items) ==
    IF items = <<>> THEN 0
    ELSE SumItems(SubSeq(items, 1, Len(items) - 1))
         + items[Len(items)].price_at_purchase * items[Len(items)].quantity

\* ---------------------------------------------------------------- Init
\* The database the exploration starts from: a catalog of one or two
\* products at version 1 and, for every user, a cart of at most MaxLines
\* lines of distinct products, as create_product and add_to_cart leave them.
SeedPrice(p) == IF p = 1 THEN 5 ELSE 3

\* create_product (lines 54-63): the row an admin inserts; version takes
\* its column default.
NewProduct(price, stock_quantity) ==
    [price |-> price, stock_quantity |-> stock_quantity, version |-> 1]

\* Product 1 with any stock; product 2 absent or fully stocked.
Catalogs ==
    {[p \in ProductIds |->
         IF p = 1 THEN NewProduct(SeedPrice(1), s) ELSE second] :
        s \in StockQuantities,
        second \in {None, NewProduct(SeedPrice(2), MaxStock)}}

CartLines == [product_id : ProductIds, quantity : Quantities]

RECURSIVE SeqsUpTo(_, _)
SeqsUpTo(S, n) ==
    IF n = 0 THEN {<<>>}
    ELSE LET shorter == SeqsUpTo(S, n - 1)
         IN  shorter \cup {Append(q, x) : q \in shorter, x \in S}

SeedCarts ==
    {c \in SeqsUpTo(CartLines, MaxLines) :
        \A a, b \in 1..Len(c) : a # b => c[a].product_id # c[b].product_id}

\* The cart_items rows of cart c of user u, with primary keys after base.
SeedRows(u, c, base) ==
    {[id |-> base + k, user |-> u, product_id |-> c[k].product_id,
      quantity |-> c[k].quantity] : k \in 1..Len(c)}

Init ==
    /\ products \in Catalogs
    /\ carts = Users
    /\ \E c1 \in SeedCarts, c2 \in SeedCarts :
          /\ cart_items = SeedRows("u1", c1, 0) \cup SeedRows("u2", c2, Len(c1))
          /\ next_item_id = Len(c1) + Len(c2) + 1
    /\ orders = {}
    /\ next_order_id = 1
    /\ pc = [w \in Workers |-> "idle"]
    /\ user = [w \in Workers |-> "u1"]
    /\ cart_snapshot = [w \in Workers |-> <<>>]
    /\ i = [w \in Workers |-> 1]
    /\ product = [w \in Workers |-> None]
    /\ total_price = [w \in Workers |-> 0]
    /\ new_order = [w \in Workers |-> None]
    /\ pending_products = [w \in Workers |-> NoPending]
    /\ pending_delete = [w \in Workers |-> {}]
    /\ exc = [w \in Workers |-> None]
    /\ response = [w \in Workers |-> None]
    /\ item = [w \in Workers |-> None]
    /\ existing_item = [w \in Workers |-> None]
    /\ handoff = [w \in Workers |-> "none"]
    /\ checkouts = 0
    /\ changes = 0

\* ------------------------------------------------ create_order_from_cart
\* Lines 176-191: load the user's cart with its items; an absent or empty
\* cart is answered 400 before the try block.  Otherwise the PROCESSING
\* order is inserted in the open transaction and obtains its primary key.
LoadCart(w, u) ==
    /\ AcceptCheckout
    /\ Free(w)
    /\ user' = [user EXCEPT ![w] = u]
    /\ IF u \notin carts \/ CartItemsOf(u) = <<>>
       THEN /\ response' = [response EXCEPT ![w] = EmptyCart]
            /\ pc' = [pc EXCEPT ![w] = "done"]
            /\ cart_snapshot' = [cart_snapshot EXCEPT ![w] = <<>>]
            /\ new_order' = [new_order EXCEPT ![w] = None]
            /\ UNCHANGED next_order_id
       ELSE /\ cart_snapshot' = [cart_snapshot EXCEPT ![w] = CartItemsOf(u)]
            /\ new_order' = [new_order EXCEPT ![w] =
                   [id |-> next_order_id, user_id |-> u, total_price |-> 0,
                    status |-> "PROCESSING", items |-> <<>>]]
            /\ next_order_id' = next_order_id + 1
            /\ response' = [response EXCEPT ![w] = None]
            /\ pc' = [pc EXCEPT ![w] = "fetch"]
    /\ total_price' = [total_price EXCEPT ![w] = 0]
    /\ i' = [i EXCEPT ![w] = 1]
    /\ product' = [product EXCEPT ![w] = None]
    /\ exc' = [exc EXCEPT ![w] = None]
    /\ handoff' = [handoff EXCEPT ![w] = "none"]
    /\ item' = [item EXCEPT ![w] = None]
    /\ existing_item' = [existing_item EXCEPT ![w] = None]
    /\ UNCHANGED <<products, carts, cart_items, orders, next_item_id,
                   pending_products, pending_delete>>

\* LineError with the stock check off by one (<= for <).
LineError_le(row, quantity) ==
    IF row = None THEN ProductNotFound
    ELSE IF row.stock_quantity <= quantity THEN OutOfStock
    ELSE None

\* Lines 199-203: the checks on the fetched product, in the order of the
\* code; None when the line passes both.
LineError(row, quantity) ==
    IF row = None THEN ProductNotFound
    ELSE IF row.stock_quantity < quantity THEN OutOfStock
    ELSE None

\* Lines 196-203: fetch the product of the current line and check it.
FetchProduct(w) ==
    /\ UNCHANGED budget
    /\ pc[w] = "fetch"
    /\ LET cart_item == cart_snapshot[w][i[w]]
           row == ProductRow(w, cart_item.product_id)
       IN  /\ product' = [product EXCEPT ![w] =
                  IF row = None THEN None
                  ELSE [id |-> cart_item.product_id, price |-> row.price,
                        stock_quantity |-> row.stock_quantity,
                        version |-> row.version]]
           /\ IF LineError(row, cart_item.quantity) # None
              THEN /\ exc' = [exc EXCEPT ![w] =
                          LineError(row, cart_item.quantity)]
                   /\ pc' = [pc EXCEPT ![w] = "except"]
              ELSE /\ pc' = [pc EXCEPT ![w] = "update"]
                   /\ UNCHANGED exc
    /\ UNCHANGED <<store, user, cart_snapshot, i, total_price, new_order,
                   pending_products, pending_delete, response, add_locals,
                   handoff>>

\* UpdateMatches without the version guard (WHERE id = ... only).
UpdateMatches_noversion(row, fetched) ==
    row # None

\* The WHERE clause of the optimistic-locking UPDATE (lines 208-209),
\* evaluated on the current row.
UpdateMatches(row, fetched) ==
    row # None /\ row.version = fetched.version

\* UpdatedRow that leaves the version as it is.
UpdatedRow_sameversion(row, fetched, quantity) ==
    [price |-> fetched.price,
     stock_quantity |-> row.stock_quantity - quantity,
     version |-> row.version]

\* The VALUES of the UPDATE (line 210), computed by the store from the
\* current row; the session keeps the price it had loaded.
UpdatedRow(row, fetched, quantity) ==
    [price |-> fetched.price,
     stock_quantity |-> row.stock_quantity - quantity,
     version |-> row.version + 1]

\* Lines 218-223: the order item of a line.
OrderItem(fetched, cart_item) ==
    [product_id |-> fetched.id, quantity |-> cart_item.quantity,
     price_at_purchase |-> fetched.price]

\* LineTotal that forgets the quantity.
LineTotal_noquantity(fetched, cart_item) ==
    fetched.price

\* Line 225: what a line adds to the running total.
LineTotal(fetched, cart_item) ==
    fetched.price * cart_item.quantity

\* Lines 206-225: the version-guarded UPDATE (rowcount 0 raises 409), then
\* the order item and the running total.  The statement waits while another
\* transaction holds the row.
UpdateProduct(w) ==
    /\ UNCHANGED budget
    /\ pc[w] = "update"
    /\ ~ProductLocked(w, product[w].id)
    /\ LET cart_item == cart_snapshot[w][i[w]]
           row == ProductRow(w, product[w].id)
       IN  IF ~UpdateMatches(row, product[w])
           THEN /\ exc' = [exc EXCEPT ![w] = StockChanged]
                /\ pc' = [pc EXCEPT ![w] = "except"]
                /\ UNCHANGED <<pending_products, new_order, total_price, i>>
           ELSE /\ pending_products' = [pending_products EXCEPT
                       ![w][product[w].id] =
                           UpdatedRow(row, product[w], cart_item.quantity)]
                /\ new_order' = [new_order EXCEPT ![w].items =
                       Append(@, OrderItem(product[w], cart_item))]
                /\ total_price' = [total_price EXCEPT ![w] =
                       @ + LineTotal(product[w], cart_item)]
                /\ i' = [i EXCEPT ![w] = @ + 1]
                /\ pc' = [pc EXCEPT ![w] =
                       IF i[w] = Len(cart_snapshot[w]) THEN "finalize"
                       ELSE "fetch"]
                /\ UNCHANGED exc
    /\ UNCHANGED <<store, user, cart_snapshot, product, pending_delete,
                   response, add_locals, handoff>>

\* FinalizeOrder that sets the total and forgets the status (line 229).
FinalizeOrder_nostatus(w) ==
    /\ UNCHANGED budget
    /\ pc[w] = "finalize"
    /\ LET rows == {r \in cart_items : r.user = user[w]}
       IN  /\ \A r \in rows : ~CartItemLocked(w, r.id)
           /\ pending_delete' = [pending_delete EXCEPT ![w] =
                  {r.id : r \in rows}]
    /\ new_order' = [new_order EXCEPT ![w].total_price = total_price[w]]
    /\ pc' = [pc EXCEPT ![w] = "commit"]
    /\ UNCHANGED <<store, user, cart_snapshot, i, product, total_price,
                   pending_products, exc, response, add_locals, handoff>>

\* Lines 228-232: total and status are set on the order and the DELETE of
\* the cart's rows is executed in the transaction; it deletes the rows that
\* are committed when it runs and waits for rows another transaction holds.
FinalizeOrder(w) ==
    /\ UNCHANGED budget
    /\ pc[w] = "finalize"
    /\ LET rows == {r \in cart_items : r.user = user[w]}
       IN  /\ \A r \in rows : ~CartItemLocked(w, r.id)
           /\ pending_delete' = [pending_delete EXCEPT ![w] =
                  {r.id : r \in rows}]
    /\ new_order' = [new_order EXCEPT ![w].total_price = total_price[w],
                                      ![w].status = "CONFIRMED"]
    /\ pc' = [pc EXCEPT ![w] = "commit"]
    /\ UNCHANGED <<store, user, cart_snapshot, i, product, total_price,
                   pending_products, exc, response, add_locals, handoff>>

\* What line 234 makes of the products rows: the transaction's updates of
\* stock_quantity and version are applied.
CommittedProducts(w) ==
    [p \in ProductIds |->
        IF pending_products[w][p] = None THEN products[p]
        ELSE [products[p] EXCEPT
                 !.stock_quantity = pending_products[w][p].stock_quantity,
                 !.version = pending_products[w][p].version]]

\* CommittedOrders that keeps one order per user, replacing the earlier one.
CommittedOrders_replace(w) ==
    {o \in orders : o.user_id # new_order[w].user_id} \cup {new_order[w]}

\* What line 234 makes of the orders rows: the session's order, with its
\* items, is added.
CommittedOrders(w) ==
    orders \cup {new_order[w]}

\* CommittedCartItems when the cart is cleared outside the transaction.
CommittedCartItems_keep(w) ==
    cart_items

\* What line 234 makes of the cart_items rows: the rows deleted at line 232
\* are gone.
CommittedCartItems(w) ==
    {r \in cart_items : r.id \notin pending_delete[w]}

\* Line 234: the transaction's writes reach the committed store at once.
Commit(w) ==
    /\ UNCHANGED budget
    /\ pc[w] = "commit"
    /\ products' = CommittedProducts(w)
    /\ orders' = CommittedOrders(w)
    /\ cart_items' = CommittedCartItems(w)
    /\ pending_products' = [pending_products EXCEPT ![w] = NoPending]
    /\ pending_delete' = [pending_delete EXCEPT ![w] = {}]
    /\ pc' = [pc EXCEPT ![w] = "committed"]
    /\ UNCHANGED <<carts, next_item_id, next_order_id, user, cart_snapshot,
                   i, product, total_price, new_order, exc, response,
                   add_locals, handoff>>

\* Lines 238-241: cache.delete, then send_order_email.delay, inside one
\* try whose except clause passes.
Handoff(cache_ok, broker_ok) ==
    IF ~cache_ok THEN "not_attempted"
    ELSE IF broker_ok THEN "queued" ELSE "raised"

\* AfterCommit without the inner try: a failing side effect reaches the
\* outer except clause.
AfterCommit_escalates(w) ==
    /\ UNCHANGED budget
    /\ pc[w] = "committed"
    /\ \E refresh_ok \in BOOLEAN, cache_ok \in BOOLEAN, broker_ok \in BOOLEAN :
          /\ handoff' = [handoff EXCEPT ![w] =
                 IF refresh_ok THEN Handoff(cache_ok, broker_ok) ELSE @]
          /\ IF refresh_ok /\ cache_ok /\ broker_ok
             THEN /\ response' = [response EXCEPT ![w] =
                         [status_code |-> 200, detail |-> new_order[w]]]
                  /\ pc' = [pc EXCEPT ![w] = "done"]
                  /\ cart_snapshot' = [cart_snapshot EXCEPT ![w] = <<>>]
                  /\ i' = [i EXCEPT ![w] = 1]
                  /\ product' = [product EXCEPT ![w] = None]
                  /\ total_price' = [total_price EXCEPT ![w] = 0]
                  /\ new_order' = [new_order EXCEPT ![w] = None]
                  /\ UNCHANGED exc
             ELSE /\ exc' = [exc EXCEPT ![w] =
                         IF refresh_ok THEN StoreUnavailable
                         ELSE RefreshFailed]
                  /\ pc' = [pc EXCEPT ![w] = "except"]
                  /\ UNCHANGED <<response, cart_snapshot, i, product,
                                 total_price, new_order>>
    /\ UNCHANGED <<store, user, pending_products, pending_delete, add_locals>>

\* Lines 235-243: reload the committed order (a store failure here raises
\* inside the outer try), then the best-effort side effects and the return
\* of the order, which ends the handler and its locals.
AfterCommit(w) ==
    /\ UNCHANGED budget
    /\ pc[w] = "committed"
    /\ \E refresh_ok \in BOOLEAN, cache_ok \in BOOLEAN, broker_ok \in BOOLEAN :
          IF refresh_ok
          THEN /\ handoff' = [handoff EXCEPT ![w] =
                      Handoff(cache_ok, broker_ok)]
               /\ response' = [response EXCEPT ![w] =
                      [status_code |-> 200, detail |-> new_order[w]]]
               /\ pc' = [pc EXCEPT ![w] = "done"]
               /\ cart_snapshot' = [cart_snapshot EXCEPT ![w] = <<>>]
               /\ i' = [i EXCEPT ![w] = 1]
               /\ product' = [product EXCEPT ![w] = None]
               /\ total_price' = [total_price EXCEPT ![w] = 0]
               /\ new_order' = [new_order EXCEPT ![w] = None]
               /\ UNCHANGED exc
          ELSE /\ exc' = [exc EXCEPT ![w] = RefreshFailed]
               /\ pc' = [pc EXCEPT ![w] = "except"]
               /\ UNCHANGED <<handoff, response, cart_snapshot, i, product,
                              total_price, new_order>>
    /\ UNCHANGED <<store, user, pending_products, pending_delete, add_locals>>

\* Except that commits what the transaction has written so far.
Except_commits(w) ==
    /\ UNCHANGED budget
    /\ pc[w] = "except"
    /\ products' = CommittedProducts(w)
    /\ pending_products' = [pending_products EXCEPT ![w] = NoPending]
    /\ pending_delete' = [pending_delete EXCEPT ![w] = {}]
    /\ response' = [response EXCEPT ![w] = exc[w]]
    /\ pc' = [pc EXCEPT ![w] = "done"]
    /\ cart_snapshot' = [cart_snapshot EXCEPT ![w] = <<>>]
    /\ i' = [i EXCEPT ![w] = 1]
    /\ product' = [product EXCEPT ![w] = None]
    /\ total_price' = [total_price EXCEPT ![w] = 0]
    /\ new_order' = [new_order EXCEPT ![w] = None]
    /\ exc' = [exc EXCEPT ![w] = None]
    /\ UNCHANGED <<carts, cart_items, orders, next_item_id, next_order_id,
                   user, add_locals, handoff>>

\* Except that re-raises without rolling the transaction back.
Except_norollback(w) ==
    /\ UNCHANGED budget
    /\ pc[w] = "except"
    /\ response' = [response EXCEPT ![w] = exc[w]]
    /\ pc' = [pc EXCEPT ![w] = "done"]
    /\ cart_snapshot' = [cart_snapshot EXCEPT ![w] = <<>>]
    /\ i' = [i EXCEPT ![w] = 1]
    /\ product' = [product EXCEPT ![w] = None]
    /\ total_price' = [total_price EXCEPT ![w] = 0]
    /\ new_order' = [new_order EXCEPT ![w] = None]
    /\ exc' = [exc EXCEPT ![w] = None]
    /\ UNCHANGED <<store, user, pending_products, pending_delete, add_locals,
                   handoff>>

\* Lines 245-247: roll the transaction back and re-raise, which ends the
\* handler and its locals.
Except(w) ==
    /\ UNCHANGED budget
    /\ pc[w] = "except"
    /\ pending_products' = [pending_products EXCEPT ![w] = NoPending]
    /\ pending_delete' = [pending_delete EXCEPT ![w] = {}]
    /\ response' = [response EXCEPT ![w] = exc[w]]
    /\ pc' = [pc EXCEPT ![w] = "done"]
    /\ cart_snapshot' = [cart_snapshot EXCEPT ![w] = <<>>]
    /\ i' = [i EXCEPT ![w] = 1]
    /\ product' = [product EXCEPT ![w] = None]
    /\ total_price' = [total_price EXCEPT ![w] = 0]
    /\ new_order' = [new_order EXCEPT ![w] = None]
    /\ exc' = [exc EXCEPT ![w] = None]
    /\ UNCHANGED <<store, user, add_locals, handoff>>

\* Any awaited store call of the try block (lines 188-234) may raise.
StoreFail(w) ==
    /\ UNCHANGED budget
    /\ pc[w] \in {"fetch", "update", "finalize", "commit"}
    /\ exc' = [exc EXCEPT ![w] = StoreUnavailable]
    /\ pc' = [pc EXCEPT ![w] = "except"]
    /\ UNCHANGED <<store, user, cart_snapshot, i, product, total_price,
                   new_order, pending_products, pending_delete, response,
                   add_locals, handoff>>

\* ------------------------------------------------------------ add_to_cart
\* Lines 109-123: get or create the cart (committed at once), then look for
\* a row of the same product in it.
AddRead(w, u, p, q) ==
    /\ AcceptChange
    /\ Free(w)
    /\ LET rows == {r \in cart_items : r.user = u /\ r.product_id = p}
       IN  /\ user' = [user EXCEPT ![w] = u]
           /\ carts' = carts \cup {u}
           /\ item' = [item EXCEPT ![w] = [product_id |-> p, quantity |-> q]]
           /\ IF Cardinality(rows) > 1
              THEN \* scalar_one_or_none raises MultipleResultsFound
                   /\ response' = [response EXCEPT ![w] = StoreUnavailable]
                   /\ pc' = [pc EXCEPT ![w] = "done"]
                   /\ existing_item' = [existing_item EXCEPT ![w] = None]
              ELSE /\ existing_item' = [existing_item EXCEPT ![w] =
                          IF rows = {} THEN None ELSE CHOOSE r \in rows : TRUE]
                   /\ pc' = [pc EXCEPT ![w] = "add_commit"]
                   /\ response' = [response EXCEPT ![w] = None]
    /\ cart_snapshot' = [cart_snapshot EXCEPT ![w] = <<>>]
    /\ i' = [i EXCEPT ![w] = 1]
    /\ product' = [product EXCEPT ![w] = None]
    /\ total_price' = [total_price EXCEPT ![w] = 0]
    /\ new_order' = [new_order EXCEPT ![w] = None]
    /\ exc' = [exc EXCEPT ![w] = None]
    /\ handoff' = [handoff EXCEPT ![w] = "none"]
    /\ UNCHANGED <<products, cart_items, orders, next_item_id, next_order_id,
                   pending_products, pending_delete>>

\* Lines 125-131: write the new quantity of the row found, or insert a new
\* row, and commit.  The UPDATE carries the quantity computed from the value
\* read; it waits for a row another transaction holds and raises when the
\* row is gone.
AddCommit(w) ==
    /\ UNCHANGED budget
    /\ pc[w] = "add_commit"
    /\ IF existing_item[w] # None
       THEN /\ ~CartItemLocked(w, existing_item[w].id)
            /\ IF \E r \in cart_items : r.id = existing_item[w].id
               THEN /\ cart_items' =
                        {IF r.id = existing_item[w].id
                         THEN [r EXCEPT !.quantity =
                                  existing_item[w].quantity + item[w].quantity]
                         ELSE r : r \in cart_items}
                    /\ response' = [response EXCEPT ![w] =
                           [status_code |-> 200, detail |-> "cart"]]
               ELSE /\ response' = [response EXCEPT ![w] = StoreUnavailable]
                    /\ UNCHANGED cart_items
            /\ UNCHANGED next_item_id
       ELSE /\ cart_items' = cart_items \cup
                   {[id |-> next_item_id, user |-> user[w],
                     product_id |-> item[w].product_id,
                     quantity |-> item[w].quantity]}
            /\ next_item_id' = next_item_id + 1
            /\ response' = [response EXCEPT ![w] =
                   [status_code |-> 200, detail |-> "cart"]]
    /\ pc' = [pc EXCEPT ![w] = "done"]
    /\ item' = [item EXCEPT ![w] = None]
    /\ existing_item' = [existing_item EXCEPT ![w] = None]
    /\ UNCHANGED <<products, carts, orders, next_order_id, user,
                   checkout_locals, handoff>>

\* ------------------------------------------------------- remove_from_cart
\* Lines 155-167: delete the cart's rows of one product and commit (404 and
\* no change when the user has no cart).
RemoveFromCart(u, p) ==
    /\ AcceptChange
    /\ u \in carts
    /\ LET rows == {r \in cart_items : r.user = u /\ r.product_id = p}
       IN  /\ rows # {}
           /\ \A r \in rows : \A o \in Workers : r.id \notin pending_delete[o]
           /\ cart_items' = cart_items \ rows
    /\ UNCHANGED <<products, carts, orders, next_item_id, next_order_id, pc,
                   user, checkout_locals, response, add_locals, handoff>>

\* -------------------------------------------------------------- catalog
\* The price column of a product is rewritten outside the checkout (catalog
\* maintenance); the statement waits for a row a transaction holds.
SetPrice(p, price) ==
    /\ AcceptChange
    /\ products[p] # None
    /\ products[p].price # price
    /\ \A o \in Workers : pending_products[o][p] = None
    /\ products' = [products EXCEPT ![p].price = price]
    /\ UNCHANGED <<carts, cart_items, orders, next_item_id, next_order_id, pc,
                   user, checkout_locals, response, add_locals, handoff>>

\* ------------------------------------------------------------------ Spec
Next ==
    \/ \E w \in Workers, u \in Users : LoadCart(w, u)
    \/ \E w \in Workers : FetchProduct(w)
    \/ \E w \in Workers : UpdateProduct(w)
    \/ \E w \in Workers : FinalizeOrder(w)
    \/ \E w \in Workers : Commit(w)
    \/ \E w \in Workers : AfterCommit(w)
    \/ \E w \in Workers : Except(w)
    \/ \E w \in Workers : StoreFail(w)
    \/ \E w \in Workers, u \in Users, p \in ProductIds, q \in Quantities :
          AddRead(w, u, p, q)
    \/ \E w \in Workers : AddCommit(w)
    \/ \E u \in Users, p \in ProductIds : RemoveFromCart(u, p)
    \/ \E p \in ProductIds, price \in Prices : SetPrice(p, price)

Spec == Init /\ [][Next]_vars

\* ------------------------------------------------- two checkouts, one unit
\* Two users have product 1 in their carts and the stock is enough for
\* either cart but not for both.  Both checkout requests have been
\* received: each worker has loaded its user's cart and inserted its
\* PROCESSING order (the state LoadCart leaves).  The store does not fail
\* while the two attempts run to their end.
ContentionCases ==
    {c \in [stock : 1..MaxStock, q1 : 1..MaxStock, q2 : 1..MaxStock] :
        c.q1 <= c.stock /\ c.q2 <= c.stock /\ c.q1 + c.q2 > c.stock}

InFlight(price, c, first) ==
    LET row1 == [id |-> 1, user |-> "u1", product_id |-> 1, quantity |-> c.q1]
        row2 == [id |-> 2, user |-> "u2", product_id |-> 1, quantity |-> c.q2]
        served == [w \in Workers |->
                      IF w = 1 THEN first ELSE CHOOSE u \in Users : u # first]
    IN  /\ products = [p \in ProductIds |->
               IF p = 1 THEN NewProduct(price, c.stock) ELSE None]
        /\ carts = Users
        /\ cart_items = {row1, row2}
        /\ next_item_id = 3
        /\ orders = {}
        /\ next_order_id = 3
        /\ pc = [w \in Workers |-> "fetch"]
        /\ user = served
        /\ cart_snapshot = [w \in Workers |->
               IF served[w] = "u1" THEN <<row1>> ELSE <<row2>>]
        /\ i = [w \in Workers |-> 1]
        /\ product = [w \in Workers |-> None]
        /\ total_price = [w \in Workers |-> 0]
        /\ new_order = [w \in Workers |->
               [id |-> w, user_id |-> served[w], total_price |-> 0,
                status |-> "PROCESSING", items |-> <<>>]]
        /\ pending_products = [w \in Workers |-> NoPending]
        /\ pending_delete = [w \in Workers |-> {}]
        /\ exc = [w \in Workers |-> None]
        /\ response = [w \in Workers |-> None]
        /\ item = [w \in Workers |-> None]
        /\ existing_item = [w \in Workers |-> None]
        /\ handoff = [w \in Workers |-> "none"]
        /\ checkouts = 2
        /\ changes = 0

InitContention ==
    \E price \in Prices, c \in ContentionCases, first \in Users :
        InFlight(price, c, first)

NextContention ==
    \/ \E w \in Workers : FetchProduct(w)
    \/ \E w \in Workers : UpdateProduct(w)
    \/ \E w \in Workers : FinalizeOrder(w)
    \/ \E w \in Workers : Commit(w)
    \/ \E w \in Workers : AfterCommit(w)
    \/ \E w \in Workers : Except(w)

ContentionSpec == InitContention /\ [][NextContention]_vars

\* The scenario of the design's section 8: product P (product 1) has stock
\* 1, version 1 and price 10, and two carts each hold quantity 1 of it.
InitScenario ==
    \E first \in Users :
        InFlight(10, [stock |-> 1, q1 |-> 1, q2 |-> 1], first)

ScenarioSpec == InitScenario /\ [][NextContention]_vars

\* ------------------------------------------- two add_to_cart requests at once
\* CartItemAdd.quantity is any integer (schemas.py line 38).
AnyQuantities == (0 - MaxQty)..MaxQty

CartItemAdd == [product_id : ProductIds, quantity : AnyQuantities]

\* Line 122 on the seeded cart c of user u: the row of product p, or None.
RowOf(u, c, p) ==
    LET rows == {r \in SeedRows(u, c, 0) : r.product_id = p}
    IN  IF rows = {} THEN None ELSE CHOOSE r \in rows : TRUE

\* Two add_to_cart requests of user u1 have been received and each has
\* looked for the row of its product (the state two AddRead steps leave,
\* neither request having committed yet).  Checkout requests may follow.
InitCart ==
    /\ products \in Catalogs
    /\ carts = Users
    /\ orders = {}
    /\ next_order_id = 1
    /\ \E c \in SeedCarts, body \in [Workers -> CartItemAdd] :
          /\ cart_items = SeedRows("u1", c, 0)
          /\ next_item_id = Len(c) + 1
          /\ item = body
          /\ existing_item = [w \in Workers |->
                 RowOf("u1", c, body[w].product_id)]
    /\ pc = [w \in Workers |-> "add_commit"]
    /\ user = [w \in Workers |-> "u1"]
    /\ cart_snapshot = [w \in Workers |-> <<>>]
    /\ i = [w \in Workers |-> 1]
    /\ product = [w \in Workers |-> None]
    /\ total_price = [w \in Workers |-> 0]
    /\ new_order = [w \in Workers |-> None]
    /\ pending_products = [w \in Workers |-> NoPending]
    /\ pending_delete = [w \in Workers |-> {}]
    /\ exc = [w \in Workers |-> None]
    /\ response = [w \in Workers |-> None]
    /\ handoff = [w \in Workers |-> "none"]
    /\ checkouts = 0
    /\ changes = 2

NextCart ==
    \/ \E w \in Workers : AddCommit(w)
    \/ \E w \in Workers, u \in Users : LoadCart(w, u)
    \/ \E w \in Workers : FetchProduct(w)
    \/ \E w \in Workers : UpdateProduct(w)
    \/ \E w \in Workers : FinalizeOrder(w)
    \/ \E w \in Workers : Commit(w)
    \/ \E w \in Workers : AfterCommit(w)
    \/ \E w \in Workers : Except(w)

CartSpec == InitCart /\ [][NextCart]_vars

\* ------------------------------------- two checkouts, two products, crossed
\* The transactions whose uncommitted write the statement worker w is about
\* to execute has to wait for.
WaitsFor(w) ==
    IF pc[w] = "update"
    THEN {o \in Workers \ {w} : pending_products[o][product[w].id] # None}
    ELSE IF pc[w] = "finalize"
    THEN {o \in Workers \ {w} :
             \E r \in cart_items : r.user = user[w] /\ r.id \in pending_delete[o]}
    ELSE {}

\* Worker w is in a set of transactions each of which waits for another of
\* the set.
Deadlocked(w) ==
    \E S \in SUBSET Workers :
        /\ w \in S
        /\ \A v \in S : WaitsFor(v) \cap S # {}

\* The store ends a lock wait that cannot end by itself: the waiting
\* statement of a deadlocked transaction raises.
DeadlockAbort(w) ==
    /\ Deadlocked(w)
    /\ StoreFail(w)

\* One step of the checkout handler of worker w.
Progress(w) ==
    \/ FetchProduct(w)
    \/ UpdateProduct(w)
    \/ FinalizeOrder(w)
    \/ Commit(w)
    \/ AfterCommit(w)
    \/ Except(w)

\* Both products are stocked; u1's cart holds product 1 then product 2 and
\* u2's cart product 2 then product 1.  Both checkout requests have been
\* received (the state LoadCart leaves).
InitCrossed ==
    \E q \in [1..4 -> Quantities], first \in Users, s \in [ProductIds -> 1..MaxStock] :
        LET rows1 == <<[id |-> 1, user |-> "u1", product_id |-> 1,
                        quantity |-> q[1]],
                       [id |-> 2, user |-> "u1", product_id |-> 2,
                        quantity |-> q[2]]>>
            rows2 == <<[id |-> 3, user |-> "u2", product_id |-> 2,
                        quantity |-> q[3]],
                       [id |-> 4, user |-> "u2", product_id |-> 1,
                        quantity |-> q[4]]>>
            served == [w \in Workers |->
                          IF w = 1 THEN first
                          ELSE CHOOSE u \in Users : u # first]
        IN  /\ products = [p \in ProductIds |-> NewProduct(SeedPrice(p), s[p])]
            /\ carts = Users
            /\ cart_items = {rows1[1], rows1[2], rows2[1], rows2[2]}
            /\ next_item_id = 5
            /\ orders = {}
            /\ next_order_id = 3
            /\ pc = [w \in Workers |-> "fetch"]
            /\ user = served
            /\ cart_snapshot = [w \in Workers |->
                   IF served[w] = "u1" THEN rows1 ELSE rows2]
            /\ i = [w \in Workers |-> 1]
            /\ product = [w \in Workers |-> None]
            /\ total_price = [w \in Workers |-> 0]
            /\ new_order = [w \in Workers |->
                   [id |-> w, user_id |-> served[w], total_price |-> 0,
                    status |-> "PROCESSING", items |-> <<>>]]
            /\ pending_products = [w \in Workers |-> NoPending]
            /\ pending_delete = [w \in Workers |-> {}]
            /\ exc = [w \in Workers |-> None]
            /\ response = [w \in Workers |-> None]
            /\ item = [w \in Workers |-> None]
            /\ existing_item = [w \in Workers |-> None]
            /\ handoff = [w \in Workers |-> "none"]
            /\ checkouts = 2
            /\ changes = 0

NextCrossed ==
    \/ \E w \in Workers : Progress(w)
    \/ \E w \in Workers : DeadlockAbort(w)

\* Every handler is a coroutine the event loop resumes whenever the store
\* call it awaits has answered, and the store answers every call: with its
\* result, once the locks it needs are free, or by raising in a deadlock.
Fairness ==
    \A w \in Workers :
        /\ WF_vars(Progress(w))
        /\ WF_vars(DeadlockAbort(w))

CrossedSpec == InitCrossed /\ [][NextCrossed]_vars /\ Fairness

\* ------------------------------------------------- a fully stocked catalog
\* The requests of Spec on a catalog whose products were all created with
\* the same stock and have not been sold yet.
InitialStock == MaxStock

InitStocked ==
    /\ Init
    /\ \A p \in ProductIds :
          products[p] # None => products[p] = NewProduct(SeedPrice(p), InitialStock)

StockedSpec == InitStocked /\ [][Next]_vars

\* ================================================================ claims
Committed == <<products, cart_items, orders>>
OrderIds == {o.id : o \in orders}
CartItemIds == {r.id : r \in cart_items}
SnapshotIds(w) == {cart_snapshot[w][k].id : k \in 1..Len(cart_snapshot[w])}
CheckoutPcs == {"fetch", "update", "finalize", "commit", "committed", "except"}
LineErrors == {ProductNotFound, OutOfStock, StockChanged}
AllDone == \A w \in Workers : pc[w] = "done"
Success(o) == [status_code |-> 200, detail |-> o]

\* C1: checkout is all-or-nothing.  No step of a checkout other than its
\* commit changes the committed products, cart_items or orders rows; an
\* attempt that raised before its commit went through has no order in the
\* store and its rollback leaves nothing of the transaction behind; an
\* empty cart is answered without creating any order row.
C1_AllOrNothing ==
    /\ [](\A w \in Workers :
            pc[w] = "except" /\ exc[w] # RefreshFailed
                => new_order[w].id \notin OrderIds)
    /\ [][\A w \in Workers :
            /\ ( /\ pc[w] \in CheckoutPcs
                 /\ pc'[w] # pc[w]
                 /\ ~(pc[w] = "commit" /\ pc'[w] = "committed") )
                   => Committed' = Committed
            /\ (pc[w] = "except" /\ pc'[w] = "done")
                   => /\ pending_products'[w] = NoPending
                      /\ pending_delete'[w] = {}
            /\ (checkouts' # checkouts /\ Free(w))
                   => /\ Committed' = Committed
                      /\ response'[w] = EmptyCart
                            => /\ next_order_id' = next_order_id
                               /\ new_order'[w] = None]_vars

\* C1 witness: the only request so far was a checkout of a two-line cart
\* whose first line (product 1, in stock) was decremented in the
\* transaction and whose second line failed; it has been rolled back.
C1_Witness ==
    \E w \in Workers :
        /\ pc[w] = "done" /\ response[w] = ProductNotFound
        /\ checkouts = 1 /\ changes = 0
        /\ LET lines == CartItemsOf(user[w])
           IN  /\ Len(lines) = 2
               /\ lines[1].product_id = 1 /\ lines[2].product_id = 2
               /\ products[1].stock_quantity >= lines[1].quantity
               /\ products[1].version = 1
        /\ orders = {}

\* C2: stock never goes negative, neither in the committed rows nor in the
\* rows a transaction has updated and not yet committed.
C2_StockNeverNegative ==
    \A p \in ProductIds :
        /\ products[p] # None => products[p].stock_quantity >= 0
        /\ \A w \in Workers :
              pending_products[w][p] # None
                  => pending_products[w][p].stock_quantity >= 0

\* C2 witness: a product was sold out by checkouts, and a checkout of it is
\* in flight.
C2_Witness ==
    \E p \in ProductIds :
        /\ products[p] # None
        /\ products[p].stock_quantity = 0 /\ products[p].version > 1
        /\ \E w \in Workers :
              pc[w] = "update" /\ product[w].id = p

\* C3: of two simultaneous checkouts of different users for a product whose
\* stock is enough for one of them only, exactly one commits a CONFIRMED
\* order and the other fails with StockChanged or OutOfStock; never both
\* commit, never both fail, and the stock does not go negative.
C3_ExactlyOneCommits ==
    /\ Cardinality(orders) <= 1
    /\ products[1].stock_quantity >= 0
    /\ AllDone =>
          \E w \in Workers : \E o \in orders :
              /\ orders = {o}
              /\ o.user_id = user[w] /\ o.status = "CONFIRMED"
              /\ response[w] \in {Success(o), RefreshFailed}
              /\ \A v \in Workers \ {w} :
                    response[v] \in {StockChanged, OutOfStock}

\* C3 witness: both attempts are over and the loser had read the product
\* before the winner's update.
C3_Witness ==
    /\ AllDone
    /\ orders # {}
    /\ \E w \in Workers : response[w] = StockChanged

\* The outcome of the scenario for the attempt that wins.
ScenarioWinner(w) ==
    \E o \in orders :
        /\ orders = {o}
        /\ o.user_id = user[w] /\ o.status = "CONFIRMED" /\ o.total_price = 10
        /\ response[w] \in {Success(o), RefreshFailed}
        /\ products[1].stock_quantity = 0 /\ products[1].version = 2

\* C5 as stated: in the scenario (stock 1, version 1, price 10, two carts
\* of quantity 1) one order is CONFIRMED with total 10, stock 0 and version
\* 2, and the other attempt fails with StockChanged.
C5_Original ==
    AllDone =>
        \E w \in Workers :
            /\ ScenarioWinner(w)
            /\ \A v \in Workers \ {w} : response[v] = StockChanged

\* C5 amended: in the scenario one order is CONFIRMED with total 10, stock
\* 0 and version 2, and the other attempt fails with StockChanged, or with
\* OutOfStock when it fetched the product after the winner's commit.
C5_Amended ==
    AllDone =>
        \E w \in Workers :
            /\ ScenarioWinner(w)
            /\ \A v \in Workers \ {w} :
                  response[v] \in {StockChanged, OutOfStock}

\* C5 witness: both attempts of the scenario are over and the loser was
\* answered OutOfStock.
C5_Witness ==
    /\ AllDone
    /\ \E w \in Workers : ScenarioWinner(w)
    /\ \E v \in Workers : response[v] = OutOfStock

\* C4: the total of a committed order is the sum of price_at_purchase *
\* quantity over its items; the order has one item per line of the cart
\* snapshot with that line's product and quantity; and an item carries the
\* price of the product as the attempt fetched it.
C4_TotalIsSumOfItems ==
    /\ \A o \in orders : o.total_price = SumItems(o.items)
    /\ \A w \in Workers :
          /\ pc[w] = "committed" =>
                /\ new_order[w] \in orders
                /\ Len(new_order[w].items) = Len(cart_snapshot[w])
                /\ \A k \in 1..Len(cart_snapshot[w]) :
                      /\ new_order[w].items[k].product_id
                             = cart_snapshot[w][k].product_id
                      /\ new_order[w].items[k].quantity
                             = cart_snapshot[w][k].quantity
          /\ (pc[w] \in {"fetch", "finalize"} /\ i[w] > 1) =>
                new_order[w].items[i[w] - 1].price_at_purchase
                    = product[w].price

\* C4 witness: a committed order of two lines, one of them of quantity 2.
C4_Witness ==
    \E o \in orders :
        /\ Len(o.items) = 2
        /\ \E k \in 1..2 : o.items[k].quantity = 2

\* C6: a failing attempt reports one error, that of the first line that
\* fails, and stops there.  For that line the error is ProductNotFound
\* (404) if the product does not exist, otherwise OutOfStock (400) if the
\* stock read is below the quantity, otherwise StockChanged (409), raised
\* because the guarded update matched no row; a cart without items is
\* answered EmptyCart (400) before any line is processed.
C6_FirstFailingLine ==
    /\ [](\A w \in Workers :
            (pc[w] = "except" /\ exc[w] \in LineErrors) =>
                LET line == cart_snapshot[w][i[w]]
                IN  /\ Len(new_order[w].items) = i[w] - 1
                    /\ exc[w] =
                         IF products[line.product_id] = None
                         THEN ProductNotFound
                         ELSE IF product[w].stock_quantity < line.quantity
                         THEN OutOfStock
                         ELSE StockChanged
                    /\ exc[w] = ProductNotFound => exc[w].status_code = 404
                    /\ exc[w] = OutOfStock => exc[w].status_code = 400
                    /\ exc[w] = StockChanged =>
                          /\ exc[w].status_code = 409
                          /\ ProductRow(w, line.product_id).version
                                 # product[w].version)
    /\ [][\A w \in Workers :
            /\ pc[w] = "except" =>
                  \/ pc'[w] = "except" /\ exc'[w] = exc[w] /\ i'[w] = i[w]
                  \/ pc'[w] = "done" /\ response'[w] = exc[w]
            /\ (checkouts' # checkouts /\ Free(w)) =>
                  ( (user'[w] \notin carts \/ CartItemsOf(user'[w]) = <<>>)
                    <=> ( /\ pc'[w] = "done"
                          /\ response'[w] = EmptyCart
                          /\ response'[w].status_code = 400 ) )]_vars

\* C6 witness: an attempt whose first line went through has failed on its
\* second line with StockChanged.
C6_Witness ==
    \E w \in Workers :
        pc[w] = "except" /\ exc[w] = StockChanged /\ i[w] = 2

\* C7: the cart is cleared in the commit that confirms the order.  While
\* the DELETE is uncommitted its rows are still in the cart and the order
\* is not in the store; once the order is committed it is CONFIRMED and no
\* line of the snapshot is left in the cart.  The step that adds an order
\* is the step that removes those lines, and no other step of a checkout
\* removes a cart line.
C7_ClearedWithConfirm ==
    /\ [](\A w \in Workers :
            /\ pc[w] = "commit" =>
                  /\ pending_delete[w] \subseteq CartItemIds
                  /\ new_order[w].id \notin OrderIds
            /\ pc[w] = "committed" =>
                  /\ new_order[w] \in orders
                  /\ new_order[w].status = "CONFIRMED"
                  /\ SnapshotIds(w) \cap CartItemIds = {})
    /\ [][/\ orders' # orders =>
                \E w \in Workers :
                    /\ pc[w] = "commit"
                    /\ orders' = orders \cup {new_order[w]}
                    /\ new_order[w].status = "CONFIRMED"
                    /\ SnapshotIds(w) \cap {r.id : r \in cart_items'} = {}
          /\ ~(CartItemIds \subseteq {r.id : r \in cart_items'}) =>
                orders' # orders \/ changes' # changes]_vars

\* C7 witness: a checkout has committed; its order is in the store and its
\* user's cart is empty.
C7_Witness ==
    \E w \in Workers :
        /\ pc[w] = "committed"
        /\ CartItemsOf(user[w]) = <<>>
        /\ new_order[w] \in orders

\* C8: a cache invalidation or notification handoff that raises after the
\* commit does not fail the checkout: the request ends with the CONFIRMED
\* order as its 200 response and the order stays committed.
C8_SideEffectsNeverFail ==
    \A w \in Workers :
        handoff[w] \in {"not_attempted", "raised"} =>
            /\ pc[w] = "done"
            /\ response[w].status_code = 200
            /\ response[w].detail \in orders
            /\ response[w].detail.status = "CONFIRMED"

\* C8 witness: the handoff raised and the checkout returned its order.
C8_Witness ==
    \E w \in Workers :
        /\ pc[w] = "done" /\ handoff[w] = "raised"
        /\ response[w].status_code = 200

\* C9: after every checkout commit the notification handoff is attempted,
\* whatever the cache invalidation did.
C9_HandoffAttempted ==
    \A w \in Workers :
        (pc[w] = "done" /\ handoff[w] # "none") =>
            handoff[w] \in {"queued", "raised"}

\* C10: a CONFIRMED order is immutable: every step keeps each committed
\* order as it is (status, total and items) and adds no second row with
\* its id.
C10_ConfirmedImmutable ==
    [][\A o \in orders :
          o.status = "CONFIRMED" =>
              /\ o \in orders'
              /\ \A n \in orders' : n.id = o.id => n = o]_vars

\* C10 witness: the price of a product now differs from the price at which a
\* committed order bought it.
C10_Witness ==
    \E o \in orders : \E k \in 1..Len(o.items) :
        /\ o.status = "CONFIRMED"
        /\ products[o.items[k].product_id].price
               # o.items[k].price_at_purchase

\* C11: no order under construction is visible outside its attempt.  Every
\* order in the committed store is CONFIRMED; an order that is PROCESSING
\* (its total still 0, to be finalized) is the new_order of the one attempt
\* that created it and is not in the committed store, and it gets there
\* only by that attempt's commit.
C11_NoOrderUnderConstruction ==
    /\ \A o \in orders : o.status = "CONFIRMED"
    /\ \A w \in Workers :
          /\ pc[w] \in {"fetch", "update", "finalize"} =>
                /\ new_order[w].status = "PROCESSING"
                /\ new_order[w].total_price = 0
                /\ new_order[w].id \notin OrderIds
                /\ \A v \in Workers \ {w} :
                      new_order[v] # None => new_order[v].id # new_order[w].id
          /\ pc[w] = "commit" => new_order[w].id \notin OrderIds

\* C11 witness: while one attempt holds a PROCESSING order with an item
\* appended, another attempt's order is already committed.
C11_Witness ==
    /\ orders # {}
    /\ \E w \in Workers :
          /\ pc[w] = "fetch"
          /\ new_order[w].status = "PROCESSING"
          /\ Len(new_order[w].items) = 1

\* C12: the version of a product is a monotonic mutation counter.  No step
\* removes a product or lowers its committed version; a step that changes
\* the committed stock_quantity or version of a product raises the version
\* and is the commit of an attempt that wrote that row; an attempt writes a
\* row only when the version of the row, as its transaction sees it, is
\* the one the attempt had read, and the row written has that version plus
\* 1, so that an uncommitted row is always ahead of the committed one.
C12_VersionMonotonic ==
    /\ [](\A p \in ProductIds : \A w \in Workers :
            pending_products[w][p] # None =>
                pending_products[w][p].version > products[p].version)
    /\ [][\A p \in ProductIds :
          /\ products[p] # None =>
                /\ products'[p] # None
                /\ products'[p].version >= products[p].version
                /\ ( \/ products'[p].stock_quantity # products[p].stock_quantity
                     \/ products'[p].version # products[p].version ) =>
                       /\ products'[p].version > products[p].version
                       /\ \E w \in Workers :
                             /\ pc[w] = "commit" /\ pc'[w] = "committed"
                             /\ pending_products[w][p] # None
                             /\ pending_products[w][p].version
                                    = products'[p].version
                             /\ pending_products[w][p].stock_quantity
                                    = products'[p].stock_quantity
          /\ \A w \in Workers :
                ( /\ pending_products'[w][p] # pending_products[w][p]
                  /\ pending_products'[w][p] # None ) =>
                    /\ product[w].id = p
                    /\ ProductRow(w, p).version = product[w].version
                    /\ pending_products'[w][p].version = product[w].version + 1
                    /\ pending_products'[w][p].stock_quantity
                           = ProductRow(w, p).stock_quantity
                                 - cart_snapshot[w][i[w]].quantity]_vars

\* C12 witness: two checkouts have updated the same product, one after the
\* other.
C12_Witness ==
    \E p \in ProductIds :
        /\ products[p] # None
        /\ products[p].version = 3
        /\ products[p].stock_quantity = 0

\* C13: cart lines are unique per product: a cart holds at most one
\* cart_items row per (cart, product), also after two add_to_cart requests
\* for the same product that run at once.
C13_UniqueLines ==
    \A r \in cart_items : \A s \in cart_items :
        (r.user = s.user /\ r.product_id = s.product_id) => r = s

\* C14: every cart line has a positive quantity, whatever integer quantity
\* the add_to_cart requests carried, and so has every line a checkout
\* processes.
C14_PositiveQuantity ==
    /\ \A r \in cart_items : r.quantity >= 1
    /\ \A w \in Workers : \A k \in 1..Len(cart_snapshot[w]) :
          cart_snapshot[w][k].quantity >= 1

\* The products of the lines of an order.
ProductsOf(o) == {o.items[k].product_id : k \in 1..Len(o.items)}

\* C15: the version guard is sound and conflicts are per product.  A
\* line's update is written only when the row of its product, committed or
\* written earlier by the same transaction, is still the row the attempt
\* read (same version and same stock) and no other transaction holds it;
\* an attempt fails with StockChanged only when the committed version of
\* the product of its current line has moved on since the attempt read it,
\* which is the work of another attempt's committed order holding a line of
\* that same product.  Attempts on disjoint products therefore never fail
\* each other.
C15_GuardPerProduct ==
    /\ [](\A w \in Workers :
            (pc[w] = "except" /\ exc[w] = StockChanged) =>
                LET p == cart_snapshot[w][i[w]].product_id
                IN  /\ product[w].id = p
                    /\ products[p].version > product[w].version
                    /\ \E o \in orders :
                          /\ o.id # new_order[w].id
                          /\ p \in ProductsOf(o))
    /\ [][\A w \in Workers : \A p \in ProductIds :
            ( /\ pending_products'[w][p] # pending_products[w][p]
              /\ pending_products'[w][p] # None ) =>
                /\ product[w].id = p
                /\ ProductRow(w, p).version = product[w].version
                /\ ProductRow(w, p).stock_quantity = product[w].stock_quantity
                /\ pending_products[w][p] = None =>
                      products[p].version = product[w].version
                /\ \A v \in Workers \ {w} : pending_products[v][p] = None]_vars

\* C15 witness: two attempts on disjoint products hold their uncommitted
\* updates at the same time, both about to commit.
C15_Witness ==
    \E w \in Workers : \E v \in Workers \ {w} :
        /\ pc[w] = "commit" /\ pc[v] = "commit"
        /\ pending_products[w][1] # None /\ pending_products[w][2] = None
        /\ pending_products[v][2] # None /\ pending_products[v][1] = None

RECURSIVE QuantityIn(_, _)
QuantityIn(items, p) ==
    IF items = <<>> THEN 0
    ELSE (IF Head(items).product_id = p THEN Head(items).quantity ELSE 0)
         + QuantityIn(Tail(items), p)

RECURSIVE ItemsIn(_, _)
ItemsIn(items, p) ==
    IF items = <<>> THEN 0
    ELSE (IF Head(items).product_id = p THEN 1 ELSE 0)
         + ItemsIn(Tail(items), p)

\* The same over a set of orders.
RECURSIVE Sold(_, _)
Sold(os, p) ==
    IF os = {} THEN 0
    ELSE LET o == CHOOSE x \in os : TRUE
         IN  QuantityIn(o.items, p) + Sold(os \ {o}, p)

RECURSIVE SoldItems(_, _)
SoldItems(os, p) ==
    IF os = {} THEN 0
    ELSE LET o == CHOOSE x \in os : TRUE
         IN  ItemsIn(o.items, p) + SoldItems(os \ {o}, p)

ConfirmedOrders == {o \in orders : o.status = "CONFIRMED"}

\* C17: inventory is conserved.  In every committed state and for every
\* product, the stock it was created with minus its current stock is the
\* sum of the quantities of the items of CONFIRMED orders for it, and its
\* version is its first version (1) plus the number of those items.
C17_InventoryConserved ==
    \A p \in ProductIds :
        products[p] # None =>
            /\ InitialStock - products[p].stock_quantity
                   = Sold(ConfirmedOrders, p)
            /\ products[p].version = 1 + SoldItems(ConfirmedOrders, p)

\* C17 witness: two committed orders have each taken a unit of product 1.
C17_Witness ==
    /\ Cardinality(orders) = 2
    /\ products[1].stock_quantity = InitialStock - 2
    /\ Sold(ConfirmedOrders, 1) = 2

\* C18: a successful checkout removes from the cart only what it ordered:
\* every cart_items row its commit removes is a line of its snapshot, with
\* the quantity that was ordered, also when an add_to_cart request of the
\* same user has committed a new line or a larger quantity since the
\* snapshot was taken.
C18_RemovesOnlyOrdered ==
    [][\A w \in Workers :
          (pc[w] = "commit" /\ pc'[w] = "committed") =>
              \A r \in cart_items \ cart_items' :
                  \E k \in 1..Len(cart_snapshot[w]) : cart_snapshot[w][k] = r]_vars

\* C19: a cart is ordered at most once.  As long as no add_to_cart request
\* has refilled a cart (no cart or catalog request was received), the lines
\* a user's cart started with are in at most one committed order, also when
\* two checkout requests of that user run at the same time and the stock is
\* enough for both.
C19_CartOrderedOnce ==
    changes = 0 =>
        \A o \in orders : \A n \in orders :
            o.user_id = n.user_id => o = n

\* C20: the reported outcome agrees with the committed state: a checkout
\* request ends with an error if and only if its order is not in the
\* committed store, so an attempt whose commit succeeded never returns an
\* error, whatever fails after the commit.
C20_OutcomeAgrees ==
    [][\A w \in Workers :
          (pc[w] \in CheckoutPcs /\ pc'[w] = "done") =>
              ( response'[w].status_code # 200
                    <=> new_order[w].id \notin OrderIds )]_vars

====
